---- MODULE Spec2Model ----
(***************************************************************************)
(* Model of the file catalogue (SQLiteFileIndex, populate_index), of the   *)
(* node containment store (SQLiteNodeIndex) and of the element             *)
(* registration loop (process_files_recursively) of token_talkers.         *)
(*                                                                         *)
(* Strings are sequences of one-character strings, so that SQL LIKE can be *)
(* computed character by character.  A table is the sequence of its rows   *)
(* in rowid (insertion) order.  Each store keeps the rows its connection   *)
(* sees (hard, soft, nodes) and the rows that are durable in the database  *)
(* file (hardC, softC, nodesC): python's sqlite3 opens a transaction       *)
(* before the first INSERT or DELETE and only commit() ends it.            *)
(***************************************************************************)
EXTENDS Integers, Sequences, FiniteSets, TLC

VARIABLES
    tree,        \* the directory tree under input_dir: name -> entry
    pc,          \* position of the populate_index call: idle, walk, done, raised
    todo,        \* paths below input_dir that os.walk has not yet yielded
    err,         \* what the last populate_index call raised ("none" if nothing)
    call,        \* arguments of the current or last populate_index call
    calls,       \* number of populate_index calls started
    fsTouched,   \* the current call has examined the file system
    fileSchema,  \* the tables hard_files and soft_files exist
    fileTxn,     \* the file store's connection has an open transaction
    hard, soft,  \* rows of hard_files / soft_files as the connection sees them
    hardC, softC,\* rows of hard_files / soft_files that are committed
    fres,        \* the last file store call and its outcome
    fargs,       \* the arguments of the last file store call
    fprev,       \* the file store as it was before the last file store call
    fleft,       \* rows executed by insert_*_records calls that returned False
    qpattern,    \* the fuzzy_path a caller is about to query with
    nodeSchema,  \* the table nodes exists
    nodeTxn,     \* the node store's connection has an open transaction
    nodes,       \* rows of nodes as the connection sees them
    nodesC,      \* rows of nodes that are committed
    nres,        \* outcome of the last node store call
    nleft,       \* rows executed by insert_node_records calls that raised on a container
    elements,    \* state.elements, the names register_element has appended
    rfile,       \* number of files process_files_recursively has taken up
    rpc,         \* its position: idle, register, next, raised
    attempt,     \* iterations register_elements has done for the current file
    regNow,      \* register_element calls made while the current file is registered
    verdict      \* what register_elements made of the last answer of the agent

popVars == <<tree, pc, todo, err, call, calls, fsTouched>>
fileVars == <<fileSchema, fileTxn, hard, soft, hardC, softC, fres, fargs, fprev, fleft, qpattern>>
nodeVars == <<nodeSchema, nodeTxn, nodes, nodesC, nres, nleft>>
agentVars == <<elements, rfile, rpc, attempt, regNow, verdict>>
vars == <<popVars, fileVars, nodeVars, agentVars>>

\* None as a container: no string, since every string is a sequence of characters
Null == <<"None">>

-----------------------------------------------------------------------------
(* Strings and SQL LIKE                                                    *)

\* ASCII case folding LIKE applies to both sides
Fold(c) ==
    CASE c = "A" -> "a"
      [] c = "B" -> "b"
      [] c = "D" -> "d"
      [] c = "F" -> "f"
      [] OTHER -> c

\* LIKE that compares letters with their case
RECURSIVE LikeCaseSensitive(_, _)
LikeCaseSensitive(p, s) ==
    IF p = <<>> THEN s = <<>>
    ELSE IF Head(p) = "%"
         THEN LikeCaseSensitive(Tail(p), s) \/ (s # <<>> /\ LikeCaseSensitive(p, Tail(s)))
         ELSE /\ s # <<>>
              /\ (Head(p) = "_" \/ Head(p) = Head(s))
              /\ LikeCaseSensitive(Tail(p), Tail(s))

\* s LIKE p with the default settings: % is any run of characters, _ is any
\* one character, every other character matches ignoring ASCII case, and
\* there is no escape character.
RECURSIVE Like(_, _)
Like(p, s) ==
    IF p = <<>> THEN s = <<>>
    ELSE IF Head(p) = "%"
         THEN Like(Tail(p), s) \/ (s # <<>> /\ Like(p, Tail(s)))
         ELSE /\ s # <<>>
              /\ (Head(p) = "_" \/ Fold(Head(p)) = Fold(Head(s)))
              /\ Like(Tail(p), Tail(s))

\* the matching rows, the row inserted last first
RECURSIVE SelectLikeNewestFirst(_, _, _)
SelectLikeNewestFirst(rows, f, p) ==
    IF rows = <<>> THEN <<>>
    ELSE IF Like(p, Head(rows)[f])
         THEN Append(SelectLikeNewestFirst(Tail(rows), f, p), Head(rows))
         ELSE SelectLikeNewestFirst(Tail(rows), f, p)

\* the subsequence of rows whose field f matches pattern p, in table order
RECURSIVE SelectLike(_, _, _)
SelectLike(rows, f, p) ==
    IF rows = <<>> THEN <<>>
    ELSE IF Like(p, Head(rows)[f])
         THEN <<Head(rows)>> \o SelectLike(Tail(rows), f, p)
         ELSE SelectLike(Tail(rows), f, p)

Range(q) == {q[i] : i \in 1..Len(q)}

Paths(rows) == {rows[i].path : i \in 1..Len(rows)}

-----------------------------------------------------------------------------
(* SQLiteFileIndex                                                         *)

\* the statements of a call that would write INSERT OR REPLACE: a row with
\* the key of a stored row takes its place
RECURSIVE ExecInsertsReplace(_, _)
ExecInsertsReplace(rows, records) ==
    IF records = <<>> THEN [rows |-> rows, ok |-> TRUE]
    ELSE ExecInsertsReplace(
             Append(SelectSeq(rows, LAMBDA r : r.path # Head(records).path),
                    Head(records)),
             Tail(records))

\* the INSERT statements of one insert_*_records call, one after the other:
\* a row whose primary key is already in the table raises, which ends the
\* loop with the earlier rows of the batch executed and nothing rolled back
RECURSIVE ExecInserts(_, _)
ExecInserts(rows, records) ==
    IF records = <<>> THEN [rows |-> rows, ok |-> TRUE]
    ELSE IF Head(records).path \in Paths(rows)
         THEN [rows |-> rows, ok |-> FALSE]
         ELSE ExecInserts(Append(rows, Head(records)), Tail(records))

\* the file store as one value: st.schema, st.txn, st.hard, st.soft are what
\* the connection sees, st.hardC and st.softC what is durable
FileStore ==
    [schema |-> fileSchema, txn |-> fileTxn, hard |-> hard, soft |-> soft,
     hardC |-> hardC, softC |-> softC]

SetFileStore(st) ==
    /\ fileSchema' = st.schema
    /\ fileTxn' = st.txn
    /\ hard' = st.hard
    /\ soft' = st.soft
    /\ hardC' = st.hardC
    /\ softC' = st.softC

\* self._conn.commit()
Commit(st) == [st EXCEPT !.txn = FALSE, !.hardC = st.hard, !.softC = st.soft]

\* initialize_schema that drops the tables whatever drop_existing is
InitializeSchemaDropAlways(st, drop_existing) ==
    Commit([st EXCEPT !.schema = TRUE, !.hard = <<>>, !.soft = <<>>])

\* initialize_schema(drop_existing): DROP TABLE IF EXISTS (both tables) when
\* drop_existing, CREATE TABLE IF NOT EXISTS (both tables), commit
InitializeSchema(st, drop_existing) ==
    LET keep == st.schema /\ ~drop_existing IN
    Commit([st EXCEPT !.schema = TRUE,
                      !.hard = IF keep THEN st.hard ELSE <<>>,
                      !.soft = IF keep THEN st.soft ELSE <<>>])

\* wipe_data that deletes the rows of hard_files only
WipeDataHardOnly(st) ==
    IF st.schema
    THEN [st |-> Commit([st EXCEPT !.hard = <<>>]), res |-> "ok"]
    ELSE [st |-> st, res |-> "operational"]

\* wipe_data: DELETE FROM both tables, commit; raises when a table is missing
WipeData(st) ==
    IF st.schema
    THEN [st |-> Commit([st EXCEPT !.hard = <<>>, !.soft = <<>>]), res |-> "ok"]
    ELSE [st |-> st, res |-> "operational"]

\* insert_hard_records with the try/except left out: a failing INSERT raises
InsertHardRecordsUncaught(st, records) ==
    IF ~st.schema
    THEN [st |-> st, res |-> IF records = <<>> THEN "true" ELSE "operational"]
    ELSE LET r == ExecInserts(st.hard, records) IN
         IF r.ok
         THEN [st |-> Commit([st EXCEPT !.hard = r.rows]), res |-> "true"]
         ELSE [st |-> [st EXCEPT !.hard = r.rows, !.txn = TRUE], res |-> "integrity"]

\* insert_hard_records(records): every exception is caught and turned into
\* False; commit is reached only when every INSERT succeeded.  Without the
\* table the first INSERT fails; an empty list executes nothing and succeeds.
InsertHardRecords(st, records) ==
    IF ~st.schema THEN [st |-> st, res |-> IF records = <<>> THEN "true" ELSE "false"]
    ELSE LET r == ExecInserts(st.hard, records) IN
         IF r.ok
         THEN [st |-> Commit([st EXCEPT !.hard = r.rows]), res |-> "true"]
         ELSE [st |-> [st EXCEPT !.hard = r.rows, !.txn = TRUE], res |-> "false"]

\* insert_soft_records(records); the FOREIGN KEY of soft_files is not
\* enforced (the connection never sets PRAGMA foreign_keys)
InsertSoftRecords(st, records) ==
    IF ~st.schema THEN [st |-> st, res |-> IF records = <<>> THEN "true" ELSE "false"]
    ELSE LET r == ExecInserts(st.soft, records) IN
         IF r.ok
         THEN [st |-> Commit([st EXCEPT !.soft = r.rows]), res |-> "true"]
         ELSE [st |-> [st EXCEPT !.soft = r.rows, !.txn = TRUE], res |-> "false"]

\* no row of a failed insert call is in the tables
NoneLeft == [hard |-> {}, soft |-> {}]

\* a file store call, what it returned or raised, and the rows of a query
FRes(op, res, rows) == [op |-> op, res |-> res, rows |-> rows]

\* query_hard_records(fuzzy_path) / query_soft_records(fuzzy_path)
QueryHardRecords(st, fuzzy_path) == SelectLike(st.hard, "path", fuzzy_path)

QuerySoftRecords(st, fuzzy_path) == SelectLike(st.soft, "path", fuzzy_path)

-----------------------------------------------------------------------------
(* The directory tree and populate_index                                   *)

\* file names of the walked directory
Names == {<<"a">>, <<"A">>, <<"_">>, <<"%">>}

InputDir == <<"/", "d">>

\* Path(root) / file
Join(dir, file) == dir \o <<"/">> \o file

\* the bytes of a file: an ordinary character, a line feed, a carriage
\* return, NUL, and a byte that is no valid UTF-8 (such as 0xFF)
Bytes == {"x", "LF", "CR", "NUL", "BAD"}

\* the number of bytes f.read(...) looks at for a NUL, 1024 in the code
ReadWindow == 2

\* the longest file whose classification is examined
MaxBytes == 4

\* what a regular file holds: whether open() succeeds, and its bytes
TextFile == [readable |-> TRUE, bytes |-> <<"x", "LF", "x", "LF">>]
BinaryFile == [readable |-> TRUE, bytes |-> <<"NUL", "x", "x", "x">>]
Contents == {TextFile, BinaryFile}

\* every file of at most MaxBytes bytes, readable or not
AllContents ==
    [readable : BOOLEAN, bytes : UNION {[1..k -> Bytes] : k \in 0..MaxBytes}]

\* b"\0" in f.read(1024)
HasNul(bytes) ==
    \E i \in 1..ReadWindow : i <= Len(bytes) /\ bytes[i] = "NUL"

\* the text open(file_path, "r", encoding="utf-8", errors="ignore") yields:
\* the bytes that do not decode are left out, and nothing is raised
Decode(bytes) == SelectSeq(bytes, LAMBDA b : b # "BAD")

\* the number of bytes of the first line a text file yields: up to and with
\* the first "\n", "\r" or "\r\n" (universal newlines), or all of them
FirstLine(bytes) ==
    LET ends == {i \in 1..Len(bytes) : bytes[i] \in {"LF", "CR"}} IN
    IF ends = {} THEN Len(bytes)
    ELSE LET i == CHOOSE e \in ends : \A o \in ends : e <= o IN
         IF bytes[i] = "CR" /\ i < Len(bytes) /\ bytes[i + 1] = "LF" THEN i + 1 ELSE i

\* a line count that takes "\n" as a separator of lines
LineCountSplit(bytes) == Cardinality({i \in 1..Len(bytes) : bytes[i] = "LF"}) + 1

\* for _ in f: number_of_lines += 1, on the file opened as text
RECURSIVE LineCount(_)
LineCount(bytes) ==
    IF bytes = <<>> THEN 0
    ELSE 1 + LineCount(SubSeq(bytes, FirstLine(bytes) + 1, Len(bytes)))

NoEntry == [kind |-> "none", content |-> TextFile, target |-> <<>>]
FileEntry(c) == [kind |-> "file", content |-> c, target |-> <<>>]
LinkEntry(t) == [kind |-> "link", content |-> TextFile, target |-> t]
\* a symbolic link to the walked directory itself, the parent of the link
DirLinkEntry == [kind |-> "dirlink", content |-> TextFile, target |-> <<>>]
Entries ==
    {NoEntry} \cup {FileEntry(c) : c \in Contents} \cup {LinkEntry(t) : t \in Names}

\* the name a name leads to after following at most k symbolic links
RECURSIVE Follow(_, _, _)
Follow(t, n, k) ==
    IF t[n].kind = "link" /\ k > 0 THEN Follow(t, t[n].target, k - 1) ELSE n

\* the name at the end of n's chain of links (trees hold no link cycle)
Target(t, n) == Follow(t, n, Cardinality(Names))

NoLinkCycle(t) == \A n \in Names : t[Target(t, n)].kind # "link"

Present(t) == {n \in Names : t[n].kind # "none"}

\* the path itself, links not followed
ResolveNoFollow(t, n) == Join(InputDir, n)

\* str(file_path.resolve()); a link to the walked directory resolves to it
Resolve(t, n) ==
    IF t[Target(t, n)].kind = "dirlink" THEN InputDir ELSE Join(InputDir, Target(t, n))

\* the symbolic links the operating system follows in one path lookup before
\* it fails with ELOOP, 40 on Linux
MaxLinkDepth == 2

\* the last component of a path below input_dir, and the number of links to
\* the directory the path goes through before it
Base(p) == <<p[Len(p)]>>
Depth(p) == (Len(p) - 1) \div 2

\* os.walk(input_dir, followlinks=True) takes the entry for a directory and
\* descends into it: a link to a directory that the operating system can
\* still follow; past that the entry is listed among the files
LeadsToDir(t, p) == t[Base(p)].kind = "dirlink" /\ Depth(p) < MaxLinkDepth

\* file_path.stat() and open(file_path) follow links: both need a file at the end
Exists(t, n) == t[Target(t, n)].kind = "file"

ContentOf(t, n) == t[Target(t, n)].content


\* the metadata with the lines of a binary file counted as well
ClassifyCountsBinary(t, n) ==
    IF Exists(t, n) /\ ContentOf(t, n).readable
    THEN [is_binary |-> HasNul(ContentOf(t, n).bytes),
          number_of_lines |-> LineCount(Decode(ContentOf(t, n).bytes)),
          processed |-> TRUE]
    ELSE [is_binary |-> FALSE, number_of_lines |-> 0, processed |-> FALSE]

\* the metadata populate_index computes for a file it has not catalogued yet:
\* is_binary, number_of_lines and processed start as False, 0, False and
\* keep those values when open() raises; the text is decoded with
\* errors="ignore", so reading it raises no UnicodeDecodeError
Classify(t, n) ==
    IF Exists(t, n) /\ ContentOf(t, n).readable
    THEN [is_binary |-> HasNul(ContentOf(t, n).bytes),
          number_of_lines |-> IF HasNul(ContentOf(t, n).bytes) THEN 0
                              ELSE LineCount(Decode(ContentOf(t, n).bytes)),
          processed |-> TRUE]
    ELSE [is_binary |-> FALSE, number_of_lines |-> 0, processed |-> FALSE]

HardFileRecord(t, n) ==
    [path |-> Resolve(t, n),
     size |-> Len(ContentOf(t, n).bytes),
     is_binary |-> Classify(t, n).is_binary,
     number_of_lines |-> Classify(t, n).number_of_lines,
     processed |-> Classify(t, n).processed]

\* SoftFileRecord(path=str(os.path.abspath(file_path)), hard_path=resolved_path)
SoftFileRecord(t, p) == [path |-> Join(InputDir, p), hard_path |-> Resolve(t, Base(p))]

\* hard_record_exists = any(index.query_hard_records(resolved_path))
HardRecordExists(st, t, n) == QueryHardRecords(st, Resolve(t, n)) # <<>>

\* a wipe branch that only makes sure the tables exist
WipeBranchKeepsRows(st) == InitializeSchema(st, FALSE)

\* the wipe branch: index.initialize_schema(drop_existing=True); index.wipe_data()
WipeBranch(st) == WipeData(InitializeSchema(st, TRUE)).st

\* number of populate_index calls a behaviour holds
MaxCalls == 2

\* the elif condition with the soft_files query left out
HasExistingRecordsHardOnly(st) == QueryHardRecords(st, <<"%">>) # <<>>

\* the elif condition of populate_index: either table returns a row for "%"
HasExistingRecords(st) ==
    \/ QueryHardRecords(st, <<"%">>) # <<>>
    \/ QuerySoftRecords(st, <<"%">>) # <<>>

\* a directory check that accepts every path
IsDirAlways(dirOK) == TRUE

\* input_dir.is_dir(); dirOK tells whether the caller's path is the directory
IsDir(dirOK) == dirOK

\* populate_index before the walk: the store it leaves, what it raises, and
\* whether it got as far as looking at input_dir
BeforeWalk(st, wipe, dirOK) ==
    IF wipe
    THEN [st |-> WipeBranch(st), touched |-> TRUE,
          err |-> IF IsDir(dirOK) THEN "none" ELSE "invalid"]
    ELSE IF ~st.schema
    THEN [st |-> st, touched |-> FALSE, err |-> "operational"]
    ELSE IF HasExistingRecords(st)
    THEN [st |-> st, touched |-> FALSE, err |-> "existing"]
    ELSE [st |-> st, touched |-> TRUE,
          err |-> IF IsDir(dirOK) THEN "none" ELSE "invalid"]

\* populate_index(index, input_dir, wipe) up to the start of the walk
PopulateStart(wipe, dirOK) ==
    /\ pc \in {"idle", "done", "raised"}
    /\ calls < MaxCalls
    /\ calls' = calls + 1
    /\ call' = [wipe |-> wipe, dirOK |-> dirOK]
    /\ LET b == BeforeWalk(FileStore, wipe, dirOK) IN
       /\ SetFileStore(b.st)
       /\ fsTouched' = b.touched
       /\ err' = b.err
       /\ todo' = IF b.err = "none" THEN Present(tree) ELSE {}
    /\ pc' = IF err' # "none" THEN "raised"
             ELSE IF todo' = {} THEN "done" ELSE "walk"
    /\ UNCHANGED <<tree, fres, fargs, fprev, fleft, qpattern, nodeVars, agentVars>>

\* the store after the loop body of populate_index has run for the file at
\* path p
AfterFile(st, t, p) ==
    LET st1 == IF HardRecordExists(st, t, Base(p)) THEN st
               ELSE InsertHardRecords(st, <<HardFileRecord(t, Base(p))>>).st
    IN InsertSoftRecords(st1, <<SoftFileRecord(t, p)>>).st

\* file_path.stat() raises for a link that leads to no file; it is called
\* outside the try block and only when no hard record was found
StatRaises(st, t, n) == ~HardRecordExists(st, t, n) /\ ~Exists(t, n)

\* the loop of populate_index over the files in the order os.walk yields
\* them: the store it leaves and what it raises
RECURSIVE WalkFrom(_, _, _)
WalkFrom(st, t, files) ==
    IF files = <<>> THEN [st |-> st, err |-> "none"]
    ELSE IF StatRaises(st, t, Head(files)) THEN [st |-> st, err |-> "oserror"]
    ELSE WalkFrom(AfterFile(st, t, Head(files)), t, Tail(files))

\* populate_index(index, input_dir, wipe) as a whole, for a walk that
\* yields the files in the given order
PopulateIndex(st, t, files, wipe, dirOK) ==
    LET b == BeforeWalk(st, wipe, dirOK) IN
    IF b.err # "none" THEN [st |-> b.st, err |-> b.err] ELSE WalkFrom(b.st, t, files)

\* the orders in which os.walk may yield the files of the tree
WalkOrders(t) ==
    {q \in [1..Cardinality(Present(t)) -> Present(t)] : Range(q) = Present(t)}

\* one iteration of the walk.  os.walk yields the files of a directory in
\* any order and, once the loop body has run for all of them, goes down into
\* the directories it holds
WalkStep(p) ==
    /\ pc = "walk"
    /\ p \in todo
    /\ IF LeadsToDir(tree, p)
       THEN /\ \A q \in todo : LeadsToDir(tree, q)
            /\ todo' = (todo \ {p}) \cup {Join(p, n) : n \in Present(tree)}
            /\ pc' = "walk"
            /\ err' = "none"
            /\ UNCHANGED <<fileSchema, fileTxn, hard, soft, hardC, softC>>
       ELSE IF StatRaises(FileStore, tree, Base(p))
       THEN /\ pc' = "raised"
            /\ err' = "oserror"
            /\ todo' = {}
            /\ UNCHANGED <<fileSchema, fileTxn, hard, soft, hardC, softC>>
       ELSE /\ SetFileStore(AfterFile(FileStore, tree, p))
            /\ todo' = todo \ {p}
            /\ pc' = IF todo' = {} THEN "done" ELSE "walk"
            /\ err' = "none"
    /\ UNCHANGED <<tree, call, calls, fsTouched, fres, fargs, fprev, fleft, qpattern, nodeVars, agentVars>>

\* rows a caller may have put into the store before populate_index is called
SeedHard == {[path |-> Join(InputDir, <<"a">>), size |-> 1, is_binary |-> FALSE,
              number_of_lines |-> 1, processed |-> TRUE]}
SeedSoft == {[path |-> Join(InputDir, <<"A">>), hard_path |-> Join(InputDir, <<"a">>)]}

\* the caller initialises the schema before the first populate_index call
SeedSchema ==
    /\ pc = "idle"
    /\ ~fileSchema
    /\ SetFileStore(InitializeSchema(FileStore, FALSE))
    /\ fres' = FRes("initialize_schema", "ok", <<>>)
    /\ fargs' = <<FALSE>>
    /\ fprev' = FileStore
    /\ UNCHANGED <<popVars, fleft, qpattern, nodeVars, agentVars>>

\* the caller inserts one record before the first populate_index call
SeedRecord ==
    /\ pc = "idle"
    /\ fileSchema
    /\ hard = <<>> /\ soft = <<>>
    /\ \/ \E r \in SeedHard :
            /\ SetFileStore(InsertHardRecords(FileStore, <<r>>).st)
            /\ fres' = FRes("insert_hard_records",
                            InsertHardRecords(FileStore, <<r>>).res, <<>>)
            /\ fargs' = <<r>>
       \/ \E r \in SeedSoft :
            /\ SetFileStore(InsertSoftRecords(FileStore, <<r>>).st)
            /\ fres' = FRes("insert_soft_records",
                            InsertSoftRecords(FileStore, <<r>>).res, <<>>)
            /\ fargs' = <<r>>
    /\ fprev' = FileStore
    /\ UNCHANGED <<popVars, fleft, qpattern, nodeVars, agentVars>>

-----------------------------------------------------------------------------
(* SQLiteNodeIndex                                                         *)

NodePaths == {<<"f">>, <<"F">>}
NodeNames == {<<"a">>, <<"%">>}
NodeTypes == {"class", "function"}

\* NodeRecord(hard_file_path, name, type, container); container may be None.
\* The second type is given to the top-level records of one file.
NodeRecords ==
    {r \in [hard_file_path : NodePaths, name : NodeNames, type : NodeTypes,
            container : NodeNames \cup {Null}] :
        r.type = "function" => (r.hard_file_path = <<"f">> /\ r.container = Null)}

\* the lists a caller passes to insert_node_records
NodeBatches ==
    {<<r>> : r \in NodeRecords} \cup {<<r, s>> : r \in NodeRecords, s \in NodeRecords}

\* rows the nodes table may hold in a behaviour
MaxNodes == 2

NodeStore == [schema |-> nodeSchema, txn |-> nodeTxn, nodes |-> nodes, nodesC |-> nodesC]

SetNodeStore(st) ==
    /\ nodeSchema' = st.schema
    /\ nodeTxn' = st.txn
    /\ nodes' = st.nodes
    /\ nodesC' = st.nodesC

\* self._conn.commit() of the node store
NodeCommit(st) == [st EXCEPT !.txn = FALSE, !.nodesC = st.nodes]

\* initialize_schema(drop_existing) of the node store
NodeInitializeSchema(st, drop_existing) ==
    NodeCommit([st EXCEPT !.schema = TRUE,
                          !.nodes = IF st.schema /\ ~drop_existing
                                    THEN st.nodes ELSE <<>>])

\* wipe_data of the node store
NodeWipeData(st) ==
    IF st.schema
    THEN [st |-> NodeCommit([st EXCEPT !.nodes = <<>>]), res |-> "ok"]
    ELSE [st |-> st, res |-> "operational"]

\* the rows SELECT ... WHERE hard_file_path LIKE ? and name LIKE ? returns
RECURSIVE SelectNodes(_, _, _)
SelectNodes(rows, fuzzy_path, fuzzy_name) ==
    IF rows = <<>> THEN <<>>
    ELSE IF Like(fuzzy_path, Head(rows).hard_file_path) /\ Like(fuzzy_name, Head(rows).name)
         THEN <<Head(rows)>> \o SelectNodes(Tail(rows), fuzzy_path, fuzzy_name)
         ELSE SelectNodes(Tail(rows), fuzzy_path, fuzzy_name)

\* query_node_records(fuzzy_name, fuzzy_path) on the rows the connection sees
QueryNodeRecords(rows, fuzzy_name, fuzzy_path) == SelectNodes(rows, fuzzy_path, fuzzy_name)

\* a container check that accepts top-level records only
IsValidContainerReferenceNullOnly(rows, record) == record.container = Null

\* _is_valid_container_reference(record)
IsValidContainerReference(rows, record) ==
    \/ record.container = Null
    \/ QueryNodeRecords(rows, record.container, record.hard_file_path) # <<>>

NodeKeys(rows) == {<<rows[i].hard_file_path, rows[i].name>> : i \in 1..Len(rows)}

\* the loop of insert_node_records over a table without its primary key
RECURSIVE ExecNodeInsertsNoKey(_, _, _)
ExecNodeInsertsNoKey(rows, records, began) ==
    IF records = <<>> THEN [rows |-> rows, res |-> "true", began |-> began]
    ELSE IF ~IsValidContainerReference(rows, Head(records))
         THEN [rows |-> rows, res |-> "integrity", began |-> began]
    ELSE ExecNodeInsertsNoKey(Append(rows, Head(records)), Tail(records), TRUE)

\* the loop of insert_node_records over an existing table: the container
\* check, then the INSERT, which the PRIMARY KEY (hard_file_path, name) may
\* reject; either exception leaves the loop with the rows executed so far
\* still in the open transaction
RECURSIVE ExecNodeInserts(_, _, _)
ExecNodeInserts(rows, records, began) ==
    IF records = <<>> THEN [rows |-> rows, res |-> "true", began |-> began]
    ELSE IF ~IsValidContainerReference(rows, Head(records))
         THEN [rows |-> rows, res |-> "integrity", began |-> began]
    ELSE IF <<Head(records).hard_file_path, Head(records).name>> \in NodeKeys(rows)
         THEN [rows |-> rows, res |-> "unique", began |-> TRUE]
    ELSE ExecNodeInserts(Append(rows, Head(records)), Tail(records), TRUE)

\* insert_node_records(records): "true" is the return value (every INSERT
\* has rowcount 1), "integrity" the IntegrityError the container check
\* raises, "unique" the IntegrityError of the primary key, "operational" the
\* error of a missing table
InsertNodeRecords(st, records) ==
    IF ~st.schema
    THEN [st |-> st, res |-> IF records = <<>> THEN "true" ELSE "operational"]
    ELSE LET r == ExecNodeInserts(st.nodes, records, FALSE) IN
         IF r.res = "true"
         THEN [st |-> NodeCommit([st EXCEPT !.nodes = r.rows]), res |-> "true"]
         ELSE [st |-> [st EXCEPT !.nodes = r.rows, !.txn = st.txn \/ r.began],
               res |-> r.res]

\* some record of the call is checked while the table holds no row with the
\* record's hard_file_path and with name equal to the record's container
RECURSIVE MissingAtCheck(_, _)
MissingAtCheck(rows, records) ==
    IF records = <<>> THEN FALSE
    ELSE LET r == Head(records) IN
         IF /\ r.container # Null
            /\ ~\E i \in 1..Len(rows) :
                   /\ rows[i].hard_file_path = r.hard_file_path
                   /\ rows[i].name = r.container
         THEN TRUE
         ELSE IF <<r.hard_file_path, r.name>> \in NodeKeys(rows) THEN FALSE
         ELSE MissingAtCheck(Append(rows, r), Tail(records))

\* the rows a call executed before it raised
Executed(before, after) == {after[i] : i \in (Len(before) + 1)..Len(after)}

\* some record of the call has a (hard_file_path, name) pair the table holds
DuplicateKey(rows, records) ==
    \E i \in 1..Len(records) :
        <<records[i].hard_file_path, records[i].name>> \in NodeKeys(rows)

\* a node store call and its outcome: what it returned or raised, whether a
\* record's container was missing when checked, whether the call had one
\* record, whether a record's key was stored before the call, the arguments
\* and the rows of a query
NRes(op, res, missing, single, dup, args, rows) ==
    [op |-> op, res |-> res, missing |-> missing, single |-> single, dup |-> dup,
     args |-> args, rows |-> rows]

CallInitializeSchema(drop_existing) ==
    /\ SetNodeStore(NodeInitializeSchema(NodeStore, drop_existing))
    /\ nres' = NRes("initialize_schema", "ok", FALSE, FALSE, FALSE, <<drop_existing>>, <<>>)
    /\ nleft' = IF drop_existing THEN {} ELSE nleft
    /\ UNCHANGED <<popVars, fileVars, agentVars>>

CallWipeData ==
    /\ SetNodeStore(NodeWipeData(NodeStore).st)
    /\ nres' = NRes("wipe_data", NodeWipeData(NodeStore).res, FALSE, FALSE, FALSE,
                    <<>>, <<>>)
    /\ nleft' = {}
    /\ UNCHANGED <<popVars, fileVars, agentVars>>

CallInsertNodeRecords(records) ==
    LET o == InsertNodeRecords(NodeStore, records) IN
    /\ Len(o.st.nodes) <= MaxNodes
    /\ SetNodeStore(o.st)
    /\ nres' = NRes("insert_node_records", o.res, MissingAtCheck(nodes, records),
                    Len(records) = 1, DuplicateKey(nodes, records), <<>>, <<>>)
    /\ nleft' = IF o.res = "integrity"
                THEN nleft \cup Executed(nodes, o.st.nodes) ELSE nleft
    /\ UNCHANGED <<popVars, fileVars, agentVars>>

-----------------------------------------------------------------------------
(* process_files_recursively and register_elements                         *)

CLASSIFICATION_RETRY_LIMIT == 3

\* files the walked directory holds
MaxFiles == 2

\* register_element calls the agent makes in one run
MaxTools == 2

\* what the last message of the agent's response is: no message at all, a
\* text without the words ALL ELEMENTS REGISTERED, a text with them, and a
\* text with them that also mentions register_element
Answers == {"no_message", "other", "registered", "registered_names_tool"}

\* classify_code_register_agent_response(messages), read after the tool
\* calls of the run have been appended to state.elements
ClassifyCodeRegisterAgentResponse(answer, elems) ==
    IF answer = "no_message" THEN "None"
    ELSE IF answer = "other" THEN "say_done_or_continue"
    ELSE IF elems = <<>>
         THEN IF answer = "registered_names_tool" THEN "no_elements_use_tool"
              ELSE "no_elements"
    ELSE "SUCCESS"

\* the loop of process_files_recursively takes up the next file:
\* classify_file returns True or False, or raises after its retries
StartFile(outcome) ==
    /\ rpc \in {"idle", "next"}
    /\ rfile < MaxFiles
    /\ rfile' = rfile + 1
    /\ rpc' = CASE outcome = "code" -> "register"
                [] outcome = "not_code" -> "next"
                [] OTHER -> "raised"
    /\ attempt' = 0
    /\ regNow' = 0
    /\ verdict' = "none"
    /\ UNCHANGED <<elements, popVars, fileVars, nodeVars>>

\* one iteration of the loop of register_elements: the agent runs, calling
\* register_element k times, and its answer is classified
AgentRun(k, answer) ==
    /\ rpc = "register"
    /\ attempt < CLASSIFICATION_RETRY_LIMIT
    /\ elements' = elements \o [i \in 1..k |-> "name"]
    /\ regNow' = regNow + k
    /\ attempt' = attempt + 1
    /\ LET feedback == ClassifyCodeRegisterAgentResponse(answer, elements') IN
       /\ verdict' = IF feedback = "SUCCESS" THEN "success"
                     ELSE IF attempt' = CLASSIFICATION_RETRY_LIMIT THEN "limit"
                     ELSE feedback
       /\ rpc' = IF feedback = "SUCCESS" THEN "next"
                 ELSE IF attempt' = CLASSIFICATION_RETRY_LIMIT THEN "raised"
                 ELSE "register"
    /\ UNCHANGED <<rfile, popVars, fileVars, nodeVars>>

AgentIdle ==
    /\ elements = <<>>
    /\ rfile = 0
    /\ rpc = "idle"
    /\ attempt = 0
    /\ regNow = 0
    /\ verdict = "none"

NodeIdle ==
    /\ nodeSchema = FALSE
    /\ nodeTxn = FALSE
    /\ nodes = <<>>
    /\ nodesC = <<>>
    /\ nres = NRes("none", "ok", FALSE, FALSE, FALSE, <<>>, <<>>)
    /\ nleft = {}

FileIdle ==
    /\ fileSchema = FALSE
    /\ fileTxn = FALSE
    /\ hard = <<>>
    /\ soft = <<>>
    /\ hardC = <<>>
    /\ softC = <<>>
    /\ fres = FRes("none", "ok", <<>>)
    /\ fargs = <<>>
    /\ fprev = FileStore
    /\ fleft = NoneLeft
    /\ qpattern = <<>>

PopIdle ==
    /\ pc = "idle"
    /\ todo = {}
    /\ err = "none"
    /\ call = [wipe |-> FALSE, dirOK |-> TRUE]
    /\ calls = 0
    /\ fsTouched = FALSE

\* a fresh database and any tree without link cycles
Init ==
    /\ tree \in {t \in [Names -> Entries] : NoLinkCycle(t)}
    /\ PopIdle
    /\ AgentIdle
    /\ FileIdle
    /\ NodeIdle

Next ==
    \/ \E wipe \in BOOLEAN, dirOK \in BOOLEAN : PopulateStart(wipe, dirOK)
    \/ \E p \in todo : WalkStep(p)
    \/ SeedSchema
    \/ SeedRecord

Spec == Init /\ [][Next]_vars

\* a fresh database and a directory that holds one regular file with any
\* content
ClassifyInit ==
    /\ \E c \in AllContents :
           tree = [n \in Names |-> IF n = <<"a">> THEN FileEntry(c) ELSE NoEntry]
    /\ PopIdle
    /\ AgentIdle
    /\ FileIdle
    /\ NodeIdle

SpecClassify == ClassifyInit /\ [][Next]_vars

\* a fresh database and any tree without link cycles of up to three entries
RewipeInit ==
    /\ tree \in {t \in [Names -> Entries] : NoLinkCycle(t) /\ t[<<"_">>] = NoEntry}
    /\ PopIdle
    /\ AgentIdle
    /\ FileIdle
    /\ NodeIdle

\* the caller fills the store or not, then runs populate_index with
\* wipe=True on the directory, again and again
RewipeNext ==
    \/ PopulateStart(TRUE, TRUE)
    \/ \E p \in todo : WalkStep(p)
    \/ SeedSchema
    \/ SeedRecord

SpecRewipe == RewipeInit /\ [][RewipeNext]_vars

\* a file that open() refuses with PermissionError
UnreadableFile == [readable |-> FALSE, bytes |-> <<"x", "LF">>]

\* a fresh database and any tree of up to three entries: text files, files
\* that cannot be opened, links to files and links that lead nowhere
IoInit ==
    /\ tree \in {t \in [Names -> {NoEntry, FileEntry(TextFile), FileEntry(UnreadableFile)}
                                  \cup {LinkEntry(n) : n \in Names}] :
                    NoLinkCycle(t) /\ t[<<"_">>] = NoEntry}
    /\ PopIdle
    /\ AgentIdle
    /\ FileIdle
    /\ NodeIdle

SpecIo == IoInit /\ [][Next]_vars

\* a fresh database and any tree of up to three entries, each a text file
\* or a link to the walked directory
DeepInit ==
    /\ tree \in {t \in [Names -> {NoEntry, FileEntry(TextFile), DirLinkEntry}] :
                    t[<<"_">>] = NoEntry}
    /\ PopIdle
    /\ AgentIdle
    /\ FileIdle
    /\ NodeIdle

SpecDeep == DeepInit /\ [][Next]_vars

\* the node store on a fresh database; the tree and the file store stay idle
NodeInit ==
    /\ tree = [n \in Names |-> NoEntry]
    /\ PopIdle
    /\ AgentIdle
    /\ FileIdle
    /\ NodeIdle

NodeNext ==
    \/ \E drop_existing \in BOOLEAN : CallInitializeSchema(drop_existing)
    \/ CallWipeData
    \/ \E records \in NodeBatches : CallInsertNodeRecords(records)

SpecNodes == NodeInit /\ [][NodeNext]_vars


-----------------------------------------------------------------------------
(* Queries on a store with given rows                                      *)

StorePaths == {<<"a", "b">>, <<"A", "b">>, <<"a", "_">>, <<"b", "%">>}

StoredHard ==
    [path : StorePaths, size : {1}, is_binary : {FALSE}, number_of_lines : {1},
     processed : {TRUE}]

StoredSoft == [path : StorePaths, hard_path : {<<"a", "b">>}]

\* the tables of up to two rows with distinct keys
Tables(records) ==
    {<<>>} \cup {<<r>> : r \in records}
           \cup {q \in {<<r, s>> : r \in records, s \in records} : q[1].path # q[2].path}

Alphabet == {"a", "A", "b", "_", "%"}

\* the strings a caller looks for
Substrings == {<<c>> : c \in Alphabet} \cup {<<c, d>> : c \in Alphabet, d \in Alphabet}

Fuzzy(s) == <<"%">> \o s \o <<"%">>

QueryPatterns == {<<"%">>} \cup Substrings \cup {Fuzzy(s) : s \in Substrings}

\* list(index.query_hard_records(fuzzy_path)) by the caller
CallQueryHardRecords ==
    /\ fres' = IF fileSchema
               THEN FRes("query_hard_records", "ok", QueryHardRecords(FileStore, qpattern))
               ELSE FRes("query_hard_records", "operational", <<>>)
    /\ fargs' = <<qpattern>>
    /\ fprev' = FileStore
    /\ UNCHANGED <<popVars, fileSchema, fileTxn, hard, soft, hardC, softC, fleft, qpattern, nodeVars, agentVars>>

\* list(index.query_soft_records(fuzzy_path)) by the caller
CallQuerySoftRecords ==
    /\ fres' = IF fileSchema
               THEN FRes("query_soft_records", "ok", QuerySoftRecords(FileStore, qpattern))
               ELSE FRes("query_soft_records", "operational", <<>>)
    /\ fargs' = <<qpattern>>
    /\ fprev' = FileStore
    /\ UNCHANGED <<popVars, fileSchema, fileTxn, hard, soft, hardC, softC, fleft, qpattern, nodeVars, agentVars>>

\* a store whose committed tables hold any rows, and any pattern to query
QueryInit ==
    /\ tree = [n \in Names |-> NoEntry]
    /\ PopIdle
    /\ AgentIdle
    /\ NodeIdle
    /\ fileSchema = TRUE
    /\ fileTxn = FALSE
    /\ hard \in Tables(StoredHard)
    /\ soft \in Tables(StoredSoft)
    /\ hardC = hard
    /\ softC = soft
    /\ fres = FRes("none", "ok", <<>>)
    /\ fargs = <<>>
    /\ fprev = FileStore
    /\ fleft = NoneLeft
    /\ qpattern \in QueryPatterns

QueryNext ==
    \/ CallQueryHardRecords
    \/ CallQuerySoftRecords

SpecQuery == QueryInit /\ [][QueryNext]_vars

-----------------------------------------------------------------------------
(* Callers of the two stores                                               *)

\* the paths of the records a caller inserts
ApiPaths == {<<"a", "b">>, <<"A", "b">>}

\* the lists of up to two of the given records, the same record twice included
Batches(records) ==
    {<<>>} \cup {<<r>> : r \in records} \cup {<<r, s>> : r \in records, s \in records}

HardBatches == Batches({r \in StoredHard : r.path \in ApiPaths})

SoftBatches == Batches({r \in StoredSoft : r.path \in ApiPaths})

\* index.initialize_schema(drop_existing) on the file store
CallFileInitializeSchema(drop_existing) ==
    /\ SetFileStore(InitializeSchema(FileStore, drop_existing))
    /\ fres' = FRes("initialize_schema", "ok", <<>>)
    /\ fargs' = <<drop_existing>>
    /\ fprev' = FileStore
    /\ fleft' = IF drop_existing THEN NoneLeft ELSE fleft
    /\ UNCHANGED <<popVars, qpattern, nodeVars, agentVars>>

\* index.wipe_data() on the file store
CallFileWipeData ==
    LET w == WipeData(FileStore) IN
    /\ SetFileStore(w.st)
    /\ fres' = FRes("wipe_data", w.res, <<>>)
    /\ fargs' = <<>>
    /\ fprev' = FileStore
    /\ fleft' = IF w.res = "ok" THEN NoneLeft ELSE fleft
    /\ UNCHANGED <<popVars, qpattern, nodeVars, agentVars>>

\* index.insert_hard_records(records)
CallInsertHardRecords(records) ==
    LET o == InsertHardRecords(FileStore, records) IN
    /\ SetFileStore(o.st)
    /\ fres' = FRes("insert_hard_records", o.res, <<>>)
    /\ fargs' = records
    /\ fprev' = FileStore
    /\ fleft' = IF o.res = "false"
                THEN [fleft EXCEPT !.hard = @ \cup Executed(hard, o.st.hard)]
                ELSE fleft
    /\ UNCHANGED <<popVars, qpattern, nodeVars, agentVars>>

\* index.insert_soft_records(records)
CallInsertSoftRecords(records) ==
    LET o == InsertSoftRecords(FileStore, records) IN
    /\ SetFileStore(o.st)
    /\ fres' = FRes("insert_soft_records", o.res, <<>>)
    /\ fargs' = records
    /\ fprev' = FileStore
    /\ fleft' = IF o.res = "false"
                THEN [fleft EXCEPT !.soft = @ \cup Executed(soft, o.st.soft)]
                ELSE fleft
    /\ UNCHANGED <<popVars, qpattern, nodeVars, agentVars>>

\* the lists a caller of both stores passes to insert_node_records: any one
\* record, or two top-level records of one file
ApiNodeBatches ==
    {<<r>> : r \in NodeRecords}
        \cup {<<r, s>> : r, s \in {n \in NodeRecords :
                                      n.hard_file_path = <<"f">> /\ n.container = Null}}

\* the fuzzy_path values a caller gives to query_node_records
NodePathPatterns == {<<"%">>, <<"f">>}

\* list(index.query_node_records(fuzzy_name, fuzzy_path)) by the caller
CallQueryNodeRecords(fuzzy_path) ==
    /\ nres' = IF nodeSchema
               THEN NRes("query_node_records", "ok", FALSE, FALSE, FALSE,
                         <<qpattern, fuzzy_path>>,
                         QueryNodeRecords(nodes, qpattern, fuzzy_path))
               ELSE NRes("query_node_records", "operational", FALSE, FALSE, FALSE,
                         <<qpattern, fuzzy_path>>, <<>>)
    /\ UNCHANGED <<popVars, fileVars, nodeSchema, nodeTxn, nodes, nodesC, nleft, agentVars>>

\* the patterns a caller queries either store with
StorePatterns == {<<"%">>, <<"a", "%">>, <<"_">>, <<"A", "b">>}

\* no call has been made on the file store / on the node store
FileUntouched == fres.op = "none"

NodeUntouched == nres.op = "none"

\* two fresh databases, one per store, and the pattern the caller queries with
StoresInit ==
    /\ tree = [n \in Names |-> NoEntry]
    /\ PopIdle
    /\ AgentIdle
    /\ NodeIdle
    /\ fileSchema = FALSE
    /\ fileTxn = FALSE
    /\ hard = <<>>
    /\ soft = <<>>
    /\ hardC = <<>>
    /\ softC = <<>>
    /\ fres = FRes("none", "ok", <<>>)
    /\ fargs = <<>>
    /\ fprev = FileStore
    /\ fleft = NoneLeft
    /\ qpattern \in StorePatterns

\* a caller drives one of the two stores through its operations, in any
\* order and with any arguments
StoresNext ==
    \/ NodeUntouched /\ \E drop_existing \in BOOLEAN : CallFileInitializeSchema(drop_existing)
    \/ NodeUntouched /\ CallFileWipeData
    \/ NodeUntouched /\ \E records \in HardBatches : CallInsertHardRecords(records)
    \/ NodeUntouched /\ \E records \in SoftBatches : CallInsertSoftRecords(records)
    \/ NodeUntouched /\ CallQueryHardRecords
    \/ NodeUntouched /\ CallQuerySoftRecords
    \/ FileUntouched /\ \E drop_existing \in BOOLEAN : CallInitializeSchema(drop_existing)
    \/ FileUntouched /\ CallWipeData
    \/ FileUntouched /\ \E records \in ApiNodeBatches : CallInsertNodeRecords(records)
    \/ FileUntouched /\ \E fuzzy_path \in NodePathPatterns : CallQueryNodeRecords(fuzzy_path)

SpecStores == StoresInit /\ [][StoresNext]_vars

\* records a caller inserts beside populate_index: two Hard records and two
\* Soft records that differ in a field and not in the key, with the keys
\* populate_index uses for the tree below
KeyedHard ==
    {[path |-> Join(InputDir, <<"a">>), size |-> s, is_binary |-> FALSE,
      number_of_lines |-> 1, processed |-> TRUE] : s \in {1, 2}}

KeyedSoft ==
    {[path |-> Join(InputDir, <<"A">>), hard_path |-> Join(InputDir, h)] :
        h \in {<<"a">>, <<"A">>}}

\* a directory with the file a and the link A to it
LinkedTree ==
    [n \in Names |-> IF n = <<"a">> THEN FileEntry(TextFile)
                     ELSE IF n = <<"A">> THEN LinkEntry(<<"a">>)
                     ELSE NoEntry]

\* two fresh databases, one per store, and the directory
KeyedInit ==
    /\ tree = LinkedTree
    /\ PopIdle
    /\ AgentIdle
    /\ FileIdle
    /\ NodeIdle

\* a caller drives the file store through inserts, schema calls, wipes and
\* populate_index calls, or the node store through its operations
KeyedNext ==
    \/ pc # "walk" /\ NodeUntouched
          /\ \E drop_existing \in BOOLEAN : CallFileInitializeSchema(drop_existing)
    \/ pc # "walk" /\ NodeUntouched /\ CallFileWipeData
    \/ pc # "walk" /\ NodeUntouched
          /\ \E records \in Batches(KeyedHard) : CallInsertHardRecords(records)
    \/ pc # "walk" /\ NodeUntouched
          /\ \E records \in Batches(KeyedSoft) : CallInsertSoftRecords(records)
    \/ NodeUntouched /\ \E wipe \in BOOLEAN, dirOK \in BOOLEAN : PopulateStart(wipe, dirOK)
    \/ \E p \in todo : WalkStep(p)
    \/ FileUntouched /\ calls = 0
          /\ \E drop_existing \in BOOLEAN : CallInitializeSchema(drop_existing)
    \/ FileUntouched /\ calls = 0 /\ CallWipeData
    \/ FileUntouched /\ calls = 0
          /\ \E records \in ApiNodeBatches : CallInsertNodeRecords(records)

SpecKeyed == KeyedInit /\ [][KeyedNext]_vars

\* process_files_recursively on a directory of MaxFiles files
AgentInit ==
    /\ tree = [n \in Names |-> NoEntry]
    /\ PopIdle
    /\ AgentIdle
    /\ FileIdle
    /\ NodeIdle

AgentNext ==
    \/ \E outcome \in {"code", "not_code", "limit"} : StartFile(outcome)
    \/ \E k \in 0..MaxTools, answer \in Answers : AgentRun(k, answer)

SpecAgent == AgentInit /\ [][AgentNext]_vars

-----------------------------------------------------------------------------
(* Properties of populate_index                                            *)

NoLinks(t) == \A n \in Names : t[n].kind # "link"

\* C1: for a tree of N regular files and no symbolic link, populate_index
\* with wipe=true ends with exactly N Hard records and exactly N Soft
\* records, each Soft record's hard_path equal to its own path, whatever the
\* file names and the order of the walk.
C1_CountsWithoutLinks ==
    (pc = "done" /\ call.wipe /\ NoLinks(tree)) =>
        /\ Len(hard) = Cardinality(Present(tree))
        /\ Len(soft) = Cardinality(Present(tree))
        /\ \A i \in 1..Len(soft) : soft[i].hard_path = soft[i].path

\* the tree is one regular file c and k links that lead to it
OneFileWithLinks(t, c, k) ==
    /\ t[c].kind = "file"
    /\ Cardinality(Present(t)) = k + 1
    /\ \A n \in Present(t) \ {c} : t[n].kind = "link" /\ Target(t, n) = c

\* C2: for a canonical file with K symbolic links pointing at it inside the
\* walked tree, populate_index with wipe=true yields exactly one Hard record,
\* keyed by the resolved path, and exactly K+1 Soft records, one per path,
\* all with hard_path equal to the canonical path.
C2_OneHardPerLinkedFile ==
    \A c \in Names : \A k \in 1..Cardinality(Names) :
        (pc = "done" /\ call.wipe /\ OneFileWithLinks(tree, c, k)) =>
            /\ Len(hard) = 1
            /\ hard[1].path = Join(InputDir, c)
            /\ Len(soft) = k + 1
            /\ Range(soft) = {[path |-> Join(InputDir, n),
                               hard_path |-> Join(InputDir, c)] : n \in Present(tree)}

C2_Witness ==
    /\ pc = "done"
    /\ call.wipe
    /\ \E c \in Names : OneFileWithLinks(tree, c, 2)
    /\ Len(hard) = 1
    /\ Len(soft) = 3

\* C3: while populate_index walks and after it has returned normally, every
\* Soft record's hard_path is the path of a Hard record of the store.
C3_NoDanglingSoft ==
    (pc \in {"walk", "done"}) =>
        \A i \in 1..Len(soft) : soft[i].hard_path \in Paths(hard)

\* C4: populate_index with wipe=false on a store that holds a Hard or a Soft
\* record raises the existing-data error, before input_dir is examined and
\* with every record left as it was, also when input_dir is invalid.
C4_ExistingDataFirst ==
    [][(calls' = calls + 1 /\ ~call'.wipe /\ (hard # <<>> \/ soft # <<>>)) =>
          /\ pc' = "raised"
          /\ err' = "existing"
          /\ ~fsTouched'
          /\ todo' = {}
          /\ <<fileSchema, fileTxn, hard, soft, hardC, softC>>' =
                <<fileSchema, fileTxn, hard, soft, hardC, softC>>]_vars

C4_Witness ==
    /\ pc = "raised"
    /\ err = "existing"
    /\ ~call.wipe
    /\ ~call.dirOK
    /\ hard = <<>>
    /\ soft # <<>>

FileOf(row, n) ==
    /\ tree[n].kind = "file"
    /\ row.path = Join(InputDir, n)

\* a NUL among the first ReadWindow bytes
NulInWindow(bytes) == \E k \in 1..Len(bytes) : k <= ReadWindow /\ bytes[k] = "NUL"

\* C17: every Hard record populate_index creates for a readable file with a
\* NUL among the bytes of the first read has is_binary true and
\* number_of_lines 0, whatever bytes follow; every Hard record it creates
\* with is_binary true has number_of_lines 0.
C17_NulMeansBinary ==
    (pc \in {"walk", "done"}) =>
        \A i \in 1..Len(hard) :
            /\ hard[i].is_binary => hard[i].number_of_lines = 0
            /\ \A n \in Names :
                  (/\ FileOf(hard[i], n)
                   /\ tree[n].content.readable
                   /\ NulInWindow(tree[n].content.bytes)) =>
                      (hard[i].is_binary /\ hard[i].number_of_lines = 0)

\* a file with a NUL first and two line ends after it was catalogued
C17_Witness ==
    /\ pc = "done"
    /\ tree[<<"a">>].content = [readable |-> TRUE, bytes |-> <<"NUL", "LF", "x", "LF">>]
    /\ Len(hard) = 1
    /\ hard[1].is_binary
    /\ hard[1].number_of_lines = 0

\* the file is empty or its last byte is a line feed
NewlineTerminated(bytes) == bytes # <<>> => bytes[Len(bytes)] = "LF"

CountLF(bytes) == Cardinality({i \in 1..Len(bytes) : bytes[i] = "LF"})

\* the line ends of the file: each "\n", and each "\r" that no "\n" follows
LineEnds(bytes) ==
    {i \in 1..Len(bytes) :
        \/ bytes[i] = "LF"
        \/ bytes[i] = "CR" /\ ~(i < Len(bytes) /\ bytes[i + 1] = "LF")}

\* the file is empty or its last byte is a line end
LineEndTerminated(bytes) == bytes # <<>> => Len(bytes) \in LineEnds(bytes)

\* the Hard record of the text file says text, L lines, processed
TextRecord(row, bytes) ==
    /\ ~row.is_binary
    /\ row.number_of_lines = CountLF(bytes)
    /\ row.processed

\* C18 as stated: the Hard record populate_index creates for a readable
\* file without a NUL in the first read and made of L newline-terminated
\* lines has is_binary false, number_of_lines L and processed true; for a
\* 0-byte file that is is_binary false and number_of_lines 0.
C18_LinesCounted ==
    (pc \in {"walk", "done"}) =>
        \A i \in 1..Len(hard) : \A n \in Names :
            (/\ FileOf(hard[i], n)
             /\ tree[n].content.readable
             /\ ~NulInWindow(tree[n].content.bytes)
             /\ NewlineTerminated(tree[n].content.bytes)) =>
                TextRecord(hard[i], tree[n].content.bytes)

\* C18 as amended: the Hard record populate_index creates for a readable
\* file without a NUL in the first read and whose text (the bytes that
\* decode) is made of L lines, each ended by "\n", "\r\n" or a "\r" alone,
\* has is_binary false, number_of_lines L and processed true; for a 0-byte
\* file that is is_binary false and number_of_lines 0.
C18_UniversalLinesCounted ==
    (pc \in {"walk", "done"}) =>
        \A i \in 1..Len(hard) : \A n \in Names :
            (/\ FileOf(hard[i], n)
             /\ tree[n].content.readable
             /\ ~NulInWindow(tree[n].content.bytes)
             /\ LineEndTerminated(Decode(tree[n].content.bytes))) =>
                /\ ~hard[i].is_binary
                /\ hard[i].number_of_lines =
                       Cardinality(LineEnds(Decode(tree[n].content.bytes)))
                /\ hard[i].processed
                /\ tree[n].content.bytes = <<>> => hard[i].number_of_lines = 0

\* a file of two lines, the first ended by "\r" alone and the second by
\* "\n", was catalogued with 2 lines
C18_Witness ==
    /\ pc = "done"
    /\ tree[<<"a">>].content = [readable |-> TRUE, bytes |-> <<"x", "CR", "x", "LF">>]
    /\ Len(hard) = 1
    /\ hard[1].number_of_lines = 2
    /\ ~hard[1].is_binary
    /\ hard[1].processed


\* some byte of the file does not decode as UTF-8
FailsToDecode(bytes) == \E i \in 1..Len(bytes) : bytes[i] = "BAD"

\* C22: a file without a NUL in the first read whose content fails to
\* decode as text is recorded by populate_index with is_binary true and
\* number_of_lines 0.
C22_DecodeFailureMeansBinary ==
    (pc \in {"walk", "done"}) =>
        \A i \in 1..Len(hard) : \A n \in Names :
            (/\ FileOf(hard[i], n)
             /\ tree[n].content.readable
             /\ ~NulInWindow(tree[n].content.bytes)
             /\ FailsToDecode(tree[n].content.bytes)) =>
                (hard[i].is_binary /\ hard[i].number_of_lines = 0)

\* the sets of Hard and of Soft records of a store
RecordSets(st) == <<Range(st.hard), Range(st.soft)>>

\* a database on which nothing has been done
FreshStore ==
    [schema |-> FALSE, txn |-> FALSE, hard |-> <<>>, soft |-> <<>>,
     hardC |-> <<>>, softC |-> <<>>]

\* C16: for every content of the store and every order in which the walk
\* yields the files of the unchanged tree, populate_index with wipe=true run
\* twice leaves after the second run the sets of Hard and Soft records it
\* left after the first, which are those it leaves on a fresh database; the
\* runs that the walk steps make end in such a store.
C16_RewipeIdempotent ==
    /\ (pc \in {"idle", "done", "raised"}) =>
          \A files \in WalkOrders(tree) :
              LET first == PopulateIndex(FileStore, tree, files, TRUE, TRUE)
                  second == PopulateIndex(first.st, tree, files, TRUE, TRUE)
                  fresh == PopulateIndex(FreshStore, tree, files, TRUE, TRUE)
              IN /\ RecordSets(second.st) = RecordSets(first.st)
                 /\ second.err = first.err
                 /\ RecordSets(first.st) = RecordSets(fresh.st)
    /\ (pc \in {"done", "raised"}) =>
          \E files \in WalkOrders(tree) :
              LET fresh == PopulateIndex(FreshStore, tree, files, TRUE, TRUE)
              IN /\ RecordSets(FileStore) = RecordSets(fresh.st)
                 /\ err = fresh.err

\* the second of two wipe=True runs has returned, on a tree of two files
\* and a link
C16_Witness ==
    /\ pc = "done"
    /\ calls = 2
    /\ call.wipe
    /\ Len(hard) = 2
    /\ Len(soft) = 3


\* C26: a populate_index call that fails with the invalid-input-path error
\* leaves the store as it was: every Hard and Soft record present before the
\* call is present after it, also when the call was made with wipe=True.
C26_InvalidRootKeepsStore ==
    [][(calls' = calls + 1 /\ err' = "invalid") =>
          /\ Range(hard) \subseteq Range(hard')
          /\ Range(soft) \subseteq Range(soft')]_vars

\* C23: on every finite tree, also one with a link to a directory that
\* points at an ancestor of the link, the Soft records a populate_index call
\* inserts are no more than the distinct paths of the tree (its entries and
\* its root), while the walk runs and after it has ended.
C23_SoftBoundedByTree ==
    (calls > 0 /\ err \in {"none", "oserror"}) =>
        Len(soft) <= Cardinality(Present(tree)) + 1

\* open(file_path) raises for n: no file behind the path, or no permission
IoFails(t, n) == ~Exists(t, n) \/ ~ContentOf(t, n).readable

\* C21: an I/O failure on one discovered path (a file that cannot be opened,
\* a link that leads nowhere) never aborts the walk of populate_index: the
\* call returns with a Soft record for every path of the tree and, for each
\* failing path, a Hard record with processed false.
C21_IoFailureNeverAborts ==
    /\ err # "oserror"
    /\ (pc = "done" /\ calls > 0) =>
          \A n \in Present(tree) :
              /\ \E i \in 1..Len(soft) : soft[i].path = Join(InputDir, n)
              /\ IoFails(tree, n) =>
                    \E i \in 1..Len(hard) :
                        hard[i].path = Resolve(tree, n) /\ ~hard[i].processed

-----------------------------------------------------------------------------
(* Properties of insert_node_records                                       *)

IsIntegrityError(res) == res \in {"integrity", "unique"}

\* C6: insert_node_records raises an integrity error whenever a record of
\* the call has a container and no node with the same hard_file_path and
\* that name is present when the record is checked; a call made of that one
\* record leaves the node store unchanged.
C6_MissingContainerRejected ==
    [][(nodeSchema /\ nres'.op = "insert_node_records" /\ nres'.missing) =>
          /\ IsIntegrityError(nres'.res)
          /\ nres'.single => (nodes' = nodes /\ nodesC' = nodesC)]_vars

\* C7: no row of an insert_node_records call that failed on a missing
\* container is committed: the records that precede the offending one are
\* not returned by a later query and are not durable after a later operation.
C7_NoRowOfFailedBatch ==
    \A r \in nleft : r \notin Range(nodes) /\ r \notin Range(nodesC)

\* p is a top-level node and c another node of the same file whose container
\* is p
ParentChild(p, c) ==
    /\ p.container = Null
    /\ c.hard_file_path = p.hard_file_path
    /\ c.name # p.name
    /\ c.container = p.name

\* neither key is in the table yet
FreshPair(rows, p, c) ==
    /\ <<p.hard_file_path, p.name>> \notin NodeKeys(rows)
    /\ <<c.hard_file_path, c.name>> \notin NodeKeys(rows)

\* both calls of a parent-then-child insert return True and leave both rows
\* in the answer to query_node_records("%"), in one call and in two
InsertsParentThenChild(st, p, c) ==
    LET one == InsertNodeRecords(st, <<p, c>>)
        first == InsertNodeRecords(st, <<p>>)
        second == InsertNodeRecords(first.st, <<c>>)
    IN /\ one.res = "true"
       /\ {p, c} \subseteq Range(QueryNodeRecords(one.st.nodes, <<"%">>, <<"%">>))
       /\ first.res = "true"
       /\ second.res = "true"
       /\ {p, c} \subseteq Range(QueryNodeRecords(second.st.nodes, <<"%">>, <<"%">>))

\* C8 as stated: inserting a parent node and then a child node of the same
\* file whose container is the parent's name always succeeds and returns
\* true, in two successive calls and in one call, and both records are then
\* returned by query_node_records("%").
C8_ParentThenChildAlways ==
    nodeSchema =>
        \A p \in NodeRecords, c \in NodeRecords :
            ParentChild(p, c) => InsertsParentThenChild(NodeStore, p, c)

\* C8 as amended: the same, for a parent and a child neither of whose
\* (hard_file_path, name) pairs is in the store before the first insert.
C8_ParentThenChildFresh ==
    nodeSchema =>
        \A p \in NodeRecords, c \in NodeRecords :
            (ParentChild(p, c) /\ FreshPair(nodes, p, c)) =>
                InsertsParentThenChild(NodeStore, p, c)

C8_Witness ==
    /\ nres.op = "insert_node_records"
    /\ nres.res = "true"
    /\ ~nres.single
    /\ Len(nodes) = 2
    /\ ParentChild(nodes[1], nodes[2])
    /\ nodesC = nodes

\* C9: every stored node with a container has a stored node with the same
\* hard_file_path and with name exactly equal to that container.
C9_ContainerIsStored ==
    \A i \in 1..Len(nodes) :
        nodes[i].container # Null =>
            \E j \in 1..Len(nodes) :
                /\ nodes[j].hard_file_path = nodes[i].hard_file_path
                /\ nodes[j].name = nodes[i].container


\* C25: a node record whose container is its own name is never accepted as
\* the first write of its (hard_file_path, name), whatever the name, '%' and
\* '_' included: no state of the node store holds a node that is its own
\* container.
C25_NoSelfContainer ==
    \A i \in 1..Len(nodes) : nodes[i].container # nodes[i].name

-----------------------------------------------------------------------------
(* Properties of the store operations                                      *)

IsPrefix(s, q) == Len(s) <= Len(q) /\ SubSeq(q, 1, Len(s)) = s

\* q lists the rows of the table at the positions idx, lowest position first
ListsInOrder(q, rows, idx) ==
    /\ Len(q) = Cardinality(idx)
    /\ \A k \in 1..Len(q) :
          \E i \in idx : /\ q[k] = rows[i]
                         /\ Cardinality({j \in idx : j < i}) = k - 1

\* the positions of the rows a query with the pattern(s) matches
PathMatches(rows, fuzzy_path) == {i \in 1..Len(rows) : Like(fuzzy_path, rows[i].path)}

NodeMatches(rows, fuzzy_name, fuzzy_path) ==
    {i \in 1..Len(rows) : /\ Like(fuzzy_path, rows[i].hard_file_path)
                          /\ Like(fuzzy_name, rows[i].name)}

\* a table after a call: the table before it followed by the records of the
\* call that were executed, in the order of the call
Appended(before, after, records) ==
    /\ IsPrefix(before, after)
    /\ Len(after) - Len(before) <= Len(records)
    /\ SubSeq(after, Len(before) + 1, Len(after)) =
           SubSeq(records, 1, Len(after) - Len(before))

\* C11: every step keeps the rows of each table in the order of their
\* insertion (an insert, failed or not, adds its executed records behind the
\* rows already there, a wipe or a drop empties the table, nothing else
\* changes it), and query_hard_records, query_soft_records and
\* query_node_records return the matching rows in that order.
C11_InsertionOrder ==
    [][/\ (fres'.op = "query_hard_records" /\ fres'.res = "ok") =>
              ListsInOrder(fres'.rows, hard', PathMatches(hard', qpattern'))
       /\ (fres'.op = "query_soft_records" /\ fres'.res = "ok") =>
              ListsInOrder(fres'.rows, soft', PathMatches(soft', qpattern'))
       /\ (nres'.op = "query_node_records" /\ nres'.res = "ok") =>
              ListsInOrder(nres'.rows, nodes',
                           NodeMatches(nodes', nres'.args[1], nres'.args[2]))
       /\ fres'.op = "insert_hard_records" => Appended(hard, hard', fargs') /\ soft' = soft
       /\ fres'.op = "insert_soft_records" => Appended(soft, soft', fargs') /\ hard' = hard
       /\ nres'.op = "insert_node_records" => IsPrefix(nodes, nodes')
       /\ fres'.op \in {"wipe_data", "initialize_schema"} =>
              (hard' = <<>> /\ soft' = <<>>) \/ (hard' = hard /\ soft' = soft)
       /\ nres'.op \in {"wipe_data", "initialize_schema"} =>
              nodes' = <<>> \/ nodes' = nodes
       /\ (fres'.op \in {"query_hard_records", "query_soft_records"}) =>
              (hard' = hard /\ soft' = soft)
       /\ nres'.op = "query_node_records" => nodes' = nodes]_vars

\* a query returns two rows, the one of a failed insert call among them,
\* that were inserted against the order of their keys
C11_Witness ==
    /\ fres.op = "query_hard_records"
    /\ Len(fres.rows) = 2
    /\ fres.rows[1].path = <<"a", "b">>
    /\ fres.rows[2].path = <<"A", "b">>
    /\ fleft.hard # {}

\* C12: insert_hard_records and insert_soft_records return a boolean and
\* never raise: true exactly when every record of the call was inserted,
\* false when an INSERT failed, as it does for a record whose path is
\* already in the table.
C12_InsertsReturnBoolean ==
    [][/\ fres'.op = "insert_hard_records" =>
              /\ fres'.res \in {"true", "false"}
              /\ fres'.res = "true" <=> hard' = hard \o fargs'
              /\ (\E i \in 1..Len(fargs') : fargs'[i].path \in Paths(hard)) =>
                     fres'.res = "false"
       /\ fres'.op = "insert_soft_records" =>
              /\ fres'.res \in {"true", "false"}
              /\ fres'.res = "true" <=> soft' = soft \o fargs'
              /\ (\E i \in 1..Len(fargs') : fargs'[i].path \in Paths(soft)) =>
                     fres'.res = "false"]_vars

\* insert_hard_records returned False for a record whose path was stored
C12_Witness ==
    /\ fres.op = "insert_hard_records"
    /\ fres.res = "false"
    /\ Len(fargs) = 1
    /\ fargs[1].path \in Paths(fprev.hard)
    /\ hard = fprev.hard

\* no two rows of the table have the same (hard_file_path, name)
KeysUnique(rows) ==
    \A i, j \in 1..Len(rows) :
        (rows[i].hard_file_path = rows[j].hard_file_path /\ rows[i].name = rows[j].name)
            => i = j

\* C13: insert_node_records raises an integrity error when a record of the
\* call has a (hard_file_path, name) pair that is already stored; every
\* stored row stays as it is and no second row gets its key; the call
\* returns true only if each of its records (one or two here) added a row.
C13_DuplicateKeyRejected ==
    [][nres'.op = "insert_node_records" =>
          /\ nres'.dup => IsIntegrityError(nres'.res)
          /\ IsPrefix(nodes, nodes')
          /\ KeysUnique(nodes')
          /\ nres'.res = "true" =>
                 Len(nodes') = Len(nodes) + (IF nres'.single THEN 1 ELSE 2)]_vars

\* a call of one record was rejected by the primary key; the stored rows,
\* one of them of the other type, are as before
C13_Witness ==
    /\ nres.op = "insert_node_records"
    /\ nres.dup
    /\ nres.single
    /\ ~nres.missing
    /\ nres.res = "unique"
    /\ Len(nodes) = 2
    /\ nodes[1].type = "function"
    /\ nodes = nodesC

FileWiped == fres.op = "wipe_data" /\ fres.res = "ok"

NodeWiped == nres.op = "wipe_data" /\ nres.res = "ok"

\* both file queries return nothing and the tables take any one record
EmptyFileStoreAccepts(st) ==
    /\ st.schema
    /\ QueryHardRecords(st, <<"%">>) = <<>>
    /\ QuerySoftRecords(st, <<"%">>) = <<>>
    /\ \A r \in StoredHard :
          LET o == InsertHardRecords(st, <<r>>) IN
          o.res = "true" /\ QueryHardRecords(o.st, <<"%">>) = <<r>>
    /\ \A r \in StoredSoft :
          LET o == InsertSoftRecords(st, <<r>>) IN
          o.res = "true" /\ QuerySoftRecords(o.st, <<"%">>) = <<r>>

\* the node query returns nothing and the table takes any one of the records
EmptyNodeStoreAccepts(st, records) ==
    /\ st.schema
    /\ QueryNodeRecords(st.nodes, <<"%">>, <<"%">>) = <<>>
    /\ \A r \in records :
          LET o == InsertNodeRecords(st, <<r>>) IN
          o.res = "true" /\ QueryNodeRecords(o.st.nodes, <<"%">>, <<"%">>) = <<r>>

\* C14 as stated: after wipe_data both file queries with "%" are empty and
\* a following insert of any record succeeds and is returned by the next
\* query; the same for the node store and query_node_records("%").
C14_WipeThenAnyInsert ==
    /\ FileWiped => EmptyFileStoreAccepts(FileStore)
    /\ NodeWiped => EmptyNodeStoreAccepts(NodeStore, NodeRecords)

\* C14 as amended: the same, where the record inserted into the wiped node
\* store is any record without a container.
C14_WipeThenTopLevelInsert ==
    /\ FileWiped => EmptyFileStoreAccepts(FileStore)
    /\ NodeWiped =>
           EmptyNodeStoreAccepts(NodeStore, {r \in NodeRecords : r.container = Null})

\* wipe_data ran on a file store that held the rows of a failed batch
C14_Witness ==
    /\ FileWiped
    /\ fprev.txn
    /\ fprev.hard # fprev.hardC
    /\ fprev.soft # <<>>
    /\ hard = <<>>

\* C15: initialize_schema(False) leaves the Hard, Soft and Node rows as they
\* are, initialize_schema(True) leaves existing and empty tables, and a
\* second call with the same argument changes nothing the first has not.
C15_InitializeSchemaIdempotent ==
    /\ InitializeSchema(FileStore, FALSE).hard = hard
    /\ InitializeSchema(FileStore, FALSE).soft = soft
    /\ NodeInitializeSchema(NodeStore, FALSE).nodes = nodes
    /\ LET s == InitializeSchema(FileStore, TRUE) IN
           s.schema /\ s.hard = <<>> /\ s.soft = <<>>
    /\ LET s == NodeInitializeSchema(NodeStore, TRUE) IN s.schema /\ s.nodes = <<>>
    /\ \A drop_existing \in BOOLEAN :
          /\ InitializeSchema(InitializeSchema(FileStore, drop_existing), drop_existing)
                 = InitializeSchema(FileStore, drop_existing)
          /\ NodeInitializeSchema(NodeInitializeSchema(NodeStore, drop_existing),
                                  drop_existing)
                 = NodeInitializeSchema(NodeStore, drop_existing)
    /\ fres.op = "initialize_schema" =>
          /\ fileSchema
          /\ IF fargs[1] /\ fres.res = "ok" THEN hard = <<>> /\ soft = <<>>
             ELSE hard = fprev.hard /\ soft = fprev.soft
    /\ nres.op = "initialize_schema" =>
          (nodeSchema /\ (nres.args[1] => nodes = <<>>))

\* initialize_schema(False) ran on a store with two rows, one from a failed
\* batch, and both are still there
C15_Witness ==
    /\ fres.op = "initialize_schema"
    /\ fargs = <<FALSE>>
    /\ fprev.txn
    /\ Len(fprev.hard) = 2
    /\ hard = fprev.hard

\* C19: no row of an insert_hard_records or insert_soft_records call that
\* returned False is in the table the store queries, and none is durable,
\* whatever calls follow.
C19_NoRowOfFailedFileBatch ==
    /\ \A r \in fleft.hard : r \notin Range(hard) /\ r \notin Range(hardC)
    /\ \A r \in fleft.soft : r \notin Range(soft) /\ r \notin Range(softC)

\* C20: when a mutating call of either store has returned or raised, the
\* connection has no open transaction and the rows it sees are the durable
\* rows a second connection sees.
C20_CommittedOnReturn ==
    /\ fres.op \in {"initialize_schema", "wipe_data", "insert_hard_records",
                    "insert_soft_records"} =>
           (~fileTxn /\ hard = hardC /\ soft = softC)
    /\ nres.op \in {"initialize_schema", "wipe_data", "insert_node_records"} =>
           (~nodeTxn /\ nodes = nodesC)

\* the step is a wipe_data call, an initialize_schema call that drops the
\* tables, or the start of a populate_index call with wipe=True
Removal ==
    \/ CallFileWipeData
    \/ CallFileInitializeSchema(TRUE)
    \/ \E dirOK \in BOOLEAN : PopulateStart(TRUE, dirOK)
    \/ CallWipeData
    \/ CallInitializeSchema(TRUE)

\* the rows of the table afterwards that have the key of the given row
SameKeyFile(rows, row) == SelectSeq(rows, LAMBDA r : r.path = row.path)

SameKeyNode(rows, row) ==
    SelectSeq(rows, LAMBDA r : r.hard_file_path = row.hard_file_path /\ r.name = row.name)

\* C24: records are immutable once inserted.  Over every step that is no
\* wipe_data, no drop and no populate_index(wipe=True) start (inserts that
\* succeed, fail or hit a stored key, initialize_schema(False), populate
\* steps), each stored Hard, Soft and Node record stays where it is in its
\* table with the same field values, and a query with its key as the
\* pattern returns it, and returns under that key nothing else.
C24_RecordsImmutable ==
    [][~Removal =>
          /\ IsPrefix(hard, hard') /\ IsPrefix(soft, soft') /\ IsPrefix(nodes, nodes')
          /\ \A i \in 1..Len(hard) :
                SameKeyFile(SelectLike(hard', "path", hard[i].path), hard[i]) = <<hard[i]>>
          /\ \A i \in 1..Len(soft) :
                SameKeyFile(SelectLike(soft', "path", soft[i].path), soft[i]) = <<soft[i]>>
          /\ \A i \in 1..Len(nodes) :
                SameKeyNode(QueryNodeRecords(nodes', nodes[i].name, nodes[i].hard_file_path),
                            nodes[i]) = <<nodes[i]>>]_vars

\* populate_index has catalogued the file, and an insert of a record with
\* the file's key and another size has then returned False
C24_Witness ==
    /\ pc = "done"
    /\ fres.op = "insert_hard_records"
    /\ fres.res = "false"
    /\ Len(fargs) = 1
    /\ Len(hard) = 1
    /\ fargs[1].path = hard[1].path
    /\ hard[1].size = 4
    /\ fargs[1].size = 2

-----------------------------------------------------------------------------
(* Properties of register_elements                                         *)

\* C27: register_elements reports success for a file only if register_element
\* was called at least once while that file was being registered, whatever
\* was registered for earlier files.
C27_SuccessNeedsElementOfFile == verdict = "success" => regNow > 0

-----------------------------------------------------------------------------
(* Properties of the queries                                               *)

\* sub occurs in s as a run of consecutive characters
Contains(s, sub) ==
    \E i \in 1..(Len(s) - Len(sub) + 1) : SubSeq(s, i, i + Len(sub) - 1) = sub

FoldAll(s) == [i \in 1..Len(s) |-> Fold(s[i])]

HasWildcard(s) == \E i \in 1..Len(s) : s[i] \in {"%", "_"}

\* the rows of a table whose path contains sub, in table order
RECURSIVE RowsContaining(_, _)
RowsContaining(rows, sub) ==
    IF rows = <<>> THEN <<>>
    ELSE IF Contains(Head(rows).path, sub)
         THEN <<Head(rows)>> \o RowsContaining(Tail(rows), sub)
         ELSE RowsContaining(Tail(rows), sub)

\* the rows of a table whose path contains sub when case is ignored
RECURSIVE RowsContainingFolded(_, _)
RowsContainingFolded(rows, sub) ==
    IF rows = <<>> THEN <<>>
    ELSE IF Contains(FoldAll(Head(rows).path), FoldAll(sub))
         THEN <<Head(rows)>> \o RowsContainingFolded(Tail(rows), sub)
         ELSE RowsContainingFolded(Tail(rows), sub)

QueriedTable ==
    IF fres.op = "query_hard_records" THEN hard ELSE soft

IsQuery == fres.op \in {"query_hard_records", "query_soft_records"}

\* a query raises nothing, "%" returns every row, and a pattern that matches
\* no path returns the empty sequence
QueryAllAndNone ==
    IsQuery =>
        /\ fres.res = "ok"
        /\ qpattern = <<"%">> => fres.rows = QueriedTable
        /\ (\A i \in 1..Len(QueriedTable) : ~Like(qpattern, QueriedTable[i].path)) =>
               fres.rows = <<>>

\* C10 as stated: query_hard_records("%") returns all Hard records,
\* query_hard_records("%" + s + "%") returns exactly the Hard records whose
\* path contains s, a pattern matching no path returns an empty sequence and
\* raises nothing; the same for query_soft_records.
C10_FuzzyIsSubstring ==
    /\ QueryAllAndNone
    /\ \A s \in Substrings :
           (IsQuery /\ qpattern = Fuzzy(s)) =>
               fres.rows = RowsContaining(QueriedTable, s)

\* C10 as amended: for s without the characters % and _, the query with
\* "%" + s + "%" returns exactly the records whose path contains s when the
\* case of ASCII letters is ignored; the rest as stated.
C10_FuzzyIsFoldedSubstring ==
    /\ QueryAllAndNone
    /\ \A s \in Substrings :
           (IsQuery /\ qpattern = Fuzzy(s) /\ ~HasWildcard(s)) =>
               fres.rows = RowsContainingFolded(QueriedTable, s)

C10_Witness ==
    /\ fres.op = "query_hard_records"
    /\ qpattern = Fuzzy(<<"a">>)
    /\ Len(hard) = 2
    /\ Len(fres.rows) = 1
    /\ fres.rows[1].path = <<"A", "b">>

====
